---- MODULE Spec2Model ----
(***************************************************************************)
(* Exam delivery and scoring of the mock-exam portal: the query layer      *)
(* (getExam, submitExam of client/src/utils/supabaseQueries.js), the store *)
(* tables it reads and writes (supabase/migrations), and the TakeExam page *)
(* that calls it.  One user, one exam, one calendar date.                  *)
(***************************************************************************)
EXTENDS Integers, Sequences, FiniteSets, Bags, TLC

VARIABLES
    user_profile,      \* the user's user_profiles row
    exam_access,       \* the exam_access rows of the exam
    rlsEnabled,        \* whether the row-level-security migration is applied
    exam,              \* the exams row
    questions,         \* the questions rows of the exam: id -> row
    exam_attempts,     \* the user's exam_attempts rows for the exam, a bag of rows
    daily_mcq_usage,   \* mcq_count of the user's daily_mcq_usage row of today
    examData,          \* outcome of the latest getExam call (TakeExam's query)
    answers,           \* TakeExam state: question id -> selected position
    submittedQuestions, \* TakeExam state: ids of the questions submitted on the page
    results,           \* outcome of the latest submitExam call
    availableExams,    \* outcome of the latest getAvailableExams call
    auth_users,        \* accounts of the identity provider: id -> [email, password]
    account_profiles,  \* user_profiles rows as the admin endpoint sees them: id -> row
    request,           \* the latest request the admin-users handler received
    response,          \* the response the handler sent to it
    handled,           \* number of requests the handler has answered
    tabs,              \* the exam pages open side by side: tab -> [examData, answers, submitted]
    calls,             \* submitExam calls step by step: call -> [pc, answers, existingUsage]
    isSubmitting,      \* TakeExam state: a submission has been started and has not settled
    showConfirmModal,  \* TakeExam state: the confirmation dialog is shown
    submitContext,     \* TakeExam state: "manual" or "time"
    timeRemaining,     \* TakeExam state: seconds left on the overall timer
    mutations          \* submitMutation: the submitExam calls in flight, [answers, timeSpent]

vars == <<user_profile, exam_access, rlsEnabled, exam, questions, exam_attempts,
          daily_mcq_usage, examData, answers, submittedQuestions, results,
          availableExams, auth_users, account_profiles, request, response, handled,
          tabs, calls, isSubmitting, showConfirmModal, submitContext, timeRemaining,
          mutations>>

-----------------------------------------------------------------------------
(* Bounds of the model *)

NumQuestions == 2        \* size of the exam's question pool
MaxAttempts == 2         \* attempts recorded in one behaviour
MaxLimit == 2            \* largest daily_mcq_limit
SessionQuestions == 1    \* pool size of the page-level specification
MaxGrants == 2           \* exam_access rows of the exam at one time
MaxRequests == 2         \* requests the admin-users handler answers in one behaviour
MaxPending == 2          \* submitExam calls of one page in flight at one time

-----------------------------------------------------------------------------
(* Values *)

NULL == "null"           \* JSON / SQL null of a text or uuid value
NullInt == -1            \* SQL NULL of an INTEGER column, or a row that is absent
UserId == "u1"
Labels == <<"A", "B", "C", "D">>
LabelSet == {"A", "B", "C", "D"}
Positions == 0..3
QuestionIds == <<"q1", "q2", "q3", "q4">>
ForeignKey == "zz"       \* an answers key that is no question id of the exam
ExamDuration == 1        \* exams.duration, in minutes
OnTime == 30             \* a time spent, in seconds, within the duration
Late == 90               \* a time spent, in seconds, beyond the duration
ActiveExam == [is_active |-> TRUE, duration |-> ExamDuration]

NoError == ""
NoAccessError == "You have no access to this exam. Please contact your representative."
CompletedError == "You have already completed all available questions for this exam."
LimitError == "Daily MCQ limit reached."
ExamQueryError == "exams: no rows"

\* The first n question ids, in store order.
PoolSeq(n) == SubSeq(QuestionIds, 1, n)
SeqRange(s) == {s[i] : i \in 1..Len(s)}

\* A questions row.  Option texts are tokens; the correct label is c.
QuestionRow(id, c) ==
    [id |-> id, option_a |-> "ta", option_b |-> "tb", option_c |-> "tc",
     option_d |-> "td", correct_answer |-> c, explanation |-> "why"]

\* answers[k] of a JavaScript object: the value, or undefined when k is no key.
HasKey(m, k) == k \in DOMAIN m
EmptyMap == [k \in {} |-> NULL]

\* A percentage as the fraction the code divides: num / den (den = 0 is NaN).
Frac(n, d) == [num |-> n, den |-> d]
FracEq(a, b) == a.num * b.den = b.num * a.den
NoFrac == Frac(0, 0)

-----------------------------------------------------------------------------
(* Fisher-Yates, as getExam runs it on the question list and on the options *)

\* Faulty variant of Swap: the second assignment is lost.
SwapLost(s, i, j) == [s EXCEPT ![i] = s[j]]
\* [s[i], s[j]] = [s[j], s[i]]
Swap(s, i, j) == [s EXCEPT ![i] = s[j], ![j] = s[i]]

\* The values of j = Math.floor(Math.random() * (i + 1)) for i = n-1 .. 1,
\* with 1-based indices: draws[i] \in 1..i for i \in 2..n.
Draws(n) == {d \in [2..n -> 1..n] : \A i \in 2..n : d[i] <= i}

RECURSIVE ShuffleFrom(_, _, _)
ShuffleFrom(s, i, draws) ==
    IF i <= 1 THEN s ELSE ShuffleFrom(Swap(s, i, draws[i]), i - 1, draws)

FisherYates(s, draws) == ShuffleFrom(s, Len(s), draws)

-----------------------------------------------------------------------------
(* getExam: option randomisation of one question *)

OptionsOf(q) ==
    << [label |-> "A", text |-> q.option_a], [label |-> "B", text |-> q.option_b],
       [label |-> "C", text |-> q.option_c], [label |-> "D", text |-> q.option_d] >>

\* optionMapping[index] = opt.label
OptionMappingOf(options) == [p \in Positions |-> options[p + 1].label]

\* reverseMapping[opt.label] = index, a later index overwriting an earlier one
ReverseMappingOf(options) ==
    [L \in {options[i].label : i \in 1..4} |->
        CHOOSE p \in Positions :
            /\ options[p + 1].label = L
            /\ \A r \in Positions : options[r + 1].label = L => r <= p]

\* reverseMapping[question.correct_answer], NullInt when undefined
RandomizedCorrectAnswer(reverseMapping, c) ==
    IF HasKey(reverseMapping, c) THEN reverseMapping[c] ELSE NullInt

\* The question object getExam returns for store row q and option draws d.
RandomizeOptions(q, d) ==
    LET options == FisherYates(OptionsOf(q), d)
        reverseMapping == ReverseMappingOf(options)
    IN  [id |-> q.id,
         option_a |-> options[1].text, option_b |-> options[2].text,
         option_c |-> options[3].text, option_d |-> options[4].text,
         correct_answer |-> q.correct_answer, explanation |-> q.explanation,
         optionMapping |-> OptionMappingOf(options),
         reverseMapping |-> reverseMapping,
         randomizedCorrectAnswer |->
             RandomizedCorrectAnswer(reverseMapping, q.correct_answer)]

-----------------------------------------------------------------------------
(* What the store lets the caller read *)

IsAdmin == user_profile.role = "ADMIN"

\* exam_access rows the caller can select: with row-level security on, the only
\* SELECT policies of exam_access are for admins.
VisibleAccess == IF rlsEnabled /\ ~IsAdmin THEN {} ELSE exam_access

\* The access condition inside the exams and questions SELECT policies.
PolicyGrant(g) ==
    \/ g.user_id = UserId
    \/ /\ g.profession_id # NULL
       /\ g.profession_id = user_profile.profession_id
       /\ g.health_authority_id = NULL
    \/ /\ g.health_authority_id # NULL
       /\ g.health_authority_id = user_profile.health_authority_id
       /\ g.profession_id = NULL
    \/ /\ g.profession_id # NULL
       /\ g.profession_id = user_profile.profession_id
       /\ g.health_authority_id # NULL
       /\ g.health_authority_id = user_profile.health_authority_id

HasAttempt == exam_attempts # EmptyBag

\* The exams row is selectable: "Users can view accessible exams" or, for an
\* admin, "Admins can manage exams".
ExamSelectable ==
    \/ ~rlsEnabled
    \/ IsAdmin
    \/ exam.is_active /\ ((\E g \in VisibleAccess : PolicyGrant(g)) \/ HasAttempt)

\* The questions rows are selectable: "Users can view accessible exam questions".
QuestionsSelectable ==
    \/ ~rlsEnabled
    \/ IsAdmin
    \/ ExamSelectable /\ ((\E g \in VisibleAccess : PolicyGrant(g)) \/ HasAttempt)

\* The ids of the exam's questions the caller gets, in store order.
SelectedQuestions ==
    IF QuestionsSelectable
    THEN SelectSeq(QuestionIds, LAMBDA id : id \in DOMAIN questions)
    ELSE <<>>

-----------------------------------------------------------------------------
(* getExam *)

\* Faulty variant of OrFilter: every grant matches.
OrFilterNone(g) == TRUE

\* One term of .or(user_id.eq.U, profession_id.eq.P || 'null',
\* health_authority_id.eq.H || 'null'): a null profile field is sent as the
\* literal 'null', which equals no uuid.
OrFilter(g) ==
    \/ g.user_id = UserId
    \/ user_profile.profession_id # NULL /\ g.profession_id = user_profile.profession_id
    \/ /\ user_profile.health_authority_id # NULL
       /\ g.health_authority_id = user_profile.health_authority_id

\* The literal 'null' is compared with a uuid column: the store either finds it
\* equal to no row or rejects the whole query (eqNullFails).
AccessData(eqNullFails) ==
    IF /\ eqNullFails
       /\ NULL \in {user_profile.profession_id, user_profile.health_authority_id}
    THEN {}
    ELSE {g \in VisibleAccess : OrFilter(g)}

\* if (profile.role !== 'ADMIN') { ... if (!accessData) throw ... }
AccessDenied(eqNullFails) == ~IsAdmin /\ AccessData(eqNullFails) = {}

AccessQueryError == "exam_access: invalid input syntax for type uuid"
AvailableExamsResult(msg, ids) == [error |-> msg, exams |-> ids]
NoAvailableExams == AvailableExamsResult("none", {})
ExamId == "e1"

\* The outcome of getAvailableExams(userId): the ids of the exams it returns,
\* or the error of the exam_access query it throws.
getAvailableExams(eqNullFails) ==
    LET activeExams == IF exam.is_active /\ ExamSelectable THEN {ExamId} ELSE {}
    IN  IF IsAdmin THEN AvailableExamsResult(NoError, activeExams)
        ELSE IF /\ eqNullFails
                /\ NULL \in {user_profile.profession_id, user_profile.health_authority_id}
             THEN AvailableExamsResult(AccessQueryError, {})
        ELSE IF {g \in VisibleAccess : OrFilter(g)} = {}
             THEN AvailableExamsResult(NoError, {})
        ELSE AvailableExamsResult(NoError, activeExams)

\* Object.keys(attempt.answers) of every previous attempt
AnsweredQuestionIds ==
    UNION {DOMAIN row.answers : row \in BagToSet(exam_attempts)}

\* Faulty variant of AvailableQuestions: nothing is filtered out.
AvailableQuestionsAll == SelectedQuestions
\* data.questions.filter(q => !answeredQuestionIds.has(String(q.id)))
AvailableQuestions ==
    SelectSeq(SelectedQuestions, LAMBDA id : id \notin AnsweredQuestionIds)

\* Faulty variant of Used: the usage row is never read.
UsedNone == IF daily_mcq_usage = NullInt THEN 0 ELSE 0
\* usageRecord?.mcq_count || 0
Used == IF daily_mcq_usage = NullInt THEN 0 ELSE daily_mcq_usage

\* Faulty variant of Truncate: no slice.
TruncateNone(qs, remaining) == qs
\* questions.slice(0, remaining) when remaining < questions.length
Truncate(qs, remaining) ==
    IF remaining < Len(qs) THEN SubSeq(qs, 1, remaining) ELSE qs

ExamDataError(msg) ==
    [error |-> msg, questions |-> <<>>, mcqCount |-> 0, limit |-> NullInt,
     remaining |-> NullInt]
NoExamData == ExamDataError("none")

\* The exam pages one user has open side by side, before any of them loads.
TabIds == {"t1", "t2"}
ClosedTab == [examData |-> NoExamData, answers |-> EmptyMap, submitted |-> FALSE]
ClosedTabs == [t \in TabIds |-> ClosedTab]

\* The submitExam calls followed step by step, before any of them starts.
CallIds == {"c1", "c2"}
IdleCall == [pc |-> "idle", answers |-> EmptyMap, existingUsage |-> NullInt]
IdleCalls == [c \in CallIds |-> IdleCall]

\* The outcome of getExam(examId, userId) in the current store state, for the
\* draws of Math.random: orderDraws for the question order, optDraws[id] for
\* the options of question id.
getExam(eqNullFails, orderDraws, optDraws) ==
    LET limit == user_profile.daily_mcq_limit
        shuffled == FisherYates(AvailableQuestions, orderDraws)
        randomized == [i \in 1..Len(shuffled) |->
                          RandomizeOptions(questions[shuffled[i]], optDraws[shuffled[i]])]
        remaining == limit - Used
    IN  IF AccessDenied(eqNullFails) THEN ExamDataError(NoAccessError)
        ELSE IF ~(exam.is_active /\ ExamSelectable) THEN ExamDataError(ExamQueryError)
        ELSE IF Len(SelectedQuestions) = 0 THEN ExamDataError(NoAccessError)
        ELSE IF Len(AvailableQuestions) = 0 THEN ExamDataError(CompletedError)
        ELSE IF limit # NullInt /\ remaining <= 0 THEN ExamDataError(LimitError)
        ELSE [error |-> NoError,
              questions |-> IF limit # NullInt THEN Truncate(randomized, remaining)
                            ELSE randomized,
              mcqCount |-> IF limit # NullInt THEN Used ELSE 0,
              limit |-> limit,
              remaining |-> IF limit # NullInt THEN remaining ELSE NullInt]

-----------------------------------------------------------------------------
(* submitExam *)

\* Faulty variant of CorrectAnswers: every non-null entry of the map counts.
CorrectAnswersPerKey(a, pool) == Cardinality({k \in DOMAIN a : a[k] # NULL})
\* exam.questions.forEach(q => { if (answers[q.id] === q.correct_answer) correctAnswers++ })
CorrectAnswers(a, pool) ==
    Cardinality({i \in 1..Len(pool) :
                    HasKey(a, pool[i]) /\ a[pool[i]] = questions[pool[i]].correct_answer})

\* Faulty variant of AnsweredCount: every key of the map counts.
AnsweredCountKeys(a, pool) == Cardinality(DOMAIN a)
\* exam.questions.filter(q => answers[q.id] !== undefined && answers[q.id] !== null).length
AnsweredCount(a, pool) ==
    Cardinality({i \in 1..Len(pool) : HasKey(a, pool[i]) /\ a[pool[i]] # NULL})

\* dailyLimit ? {dailyLimit, answeredCount, correctCount, percentage} : null
BatchInfo(dailyLimit, answeredCount, correctAnswers) ==
    IF dailyLimit # NullInt /\ dailyLimit # 0
    THEN [present |-> TRUE, dailyLimit |-> dailyLimit, answeredCount |-> answeredCount,
          correctCount |-> correctAnswers,
          percentage |-> IF correctAnswers > dailyLimit THEN Frac(100, 1)
                         ELSE Frac(100 * correctAnswers, dailyLimit)]
    ELSE [present |-> FALSE, dailyLimit |-> NullInt, answeredCount |-> 0,
          correctCount |-> 0, percentage |-> NoFrac]

NoAttempt == [answers |-> EmptyMap, total_questions |-> 0, correct_answers |-> 0,
              time_spent |-> 0,
              score |-> NoFrac]

ResultsError(msg) ==
    [error |-> msg, attempt |-> NoAttempt, score |-> NoFrac, correctAnswers |-> 0,
     totalQuestions |-> 0, totalExamQuestions |-> 0, answeredCount |-> 0,
     dailyLimit |-> NullInt, batchInfo |-> BatchInfo(NullInt, 0, 0),
     overallPercentage |-> NoFrac]
NoResults == ResultsError("none")

\* Faulty variant of AttemptRow: a submission beyond the duration scores nothing.
AttemptRowDeadline(a, timeSpent) ==
    LET pool == SelectedQuestions
        correct == IF timeSpent > exam.duration * 60 THEN 0 ELSE CorrectAnswers(a, pool)
    IN  [answers |-> a,
         time_spent |-> timeSpent,
         total_questions |-> Len(pool),
         correct_answers |-> correct,
         score |-> Frac(100 * correct, Len(pool))]
\* The attempt row submitExam inserts for the submitted answers a.
AttemptRow(a, timeSpent) ==
    LET pool == SelectedQuestions
    IN  [answers |-> a,
         time_spent |-> timeSpent,
         total_questions |-> Len(pool),
         correct_answers |-> CorrectAnswers(a, pool),
         score |-> Frac(100 * CorrectAnswers(a, pool), Len(pool))]

\* The value submitExam returns after inserting the attempt.
SubmitResults(a, timeSpent) ==
    LET pool == SelectedQuestions
        correctAnswers == CorrectAnswers(a, pool)
        totalQuestions == Len(pool)
        dailyLimit == user_profile.daily_mcq_limit
    IN  [error |-> NoError,
         attempt |-> AttemptRow(a, timeSpent),
         score |-> Frac(100 * correctAnswers, totalQuestions),
         correctAnswers |-> correctAnswers,
         totalQuestions |-> totalQuestions,
         totalExamQuestions |-> totalQuestions,
         answeredCount |-> AnsweredCount(a, pool),
         dailyLimit |-> dailyLimit,
         batchInfo |-> BatchInfo(dailyLimit, AnsweredCount(a, pool), correctAnswers),
         overallPercentage |-> IF totalQuestions > 0
                               THEN Frac(100 * correctAnswers, totalQuestions)
                               ELSE Frac(0, 1)]

\* submitExam(examId, userId, a, timeSpent): the exam query, the attempt insert,
\* the usage update or insert, and the returned results.
submitExam(a, timeSpent) ==
    IF ~ExamSelectable
    THEN /\ results' = ResultsError(ExamQueryError)
         /\ UNCHANGED <<exam_attempts, daily_mcq_usage, examData, answers,
                        submittedQuestions>>
    ELSE /\ exam_attempts' = exam_attempts (+) SetToBag({AttemptRow(a, timeSpent)})
         /\ daily_mcq_usage' = Used + AnsweredCount(a, SelectedQuestions)
         /\ results' = SubmitResults(a, timeSpent)
         /\ examData' = NoExamData
         /\ answers' = EmptyMap
         /\ submittedQuestions' = {}

\* normalizeAttempt(attempt, dailyLimit): the derived fields of an attempt row
NormalizeAttempt(attempt, dailyLimit) ==
    [answeredCount |-> Cardinality({k \in DOMAIN attempt.answers : attempt.answers[k] # NULL}),
     dailyLimit |-> dailyLimit,
     correctCount |-> attempt.correct_answers,
     dailyLimitPercentage |->
         IF dailyLimit # NullInt /\ dailyLimit > 0
         THEN (IF attempt.correct_answers > dailyLimit THEN Frac(100, 1)
               ELSE Frac(100 * attempt.correct_answers, dailyLimit))
         ELSE NoFrac]

-----------------------------------------------------------------------------
(* TakeExam page *)

\* Faulty variant of MappedAnswers: the label displayed beside the selected
\* position (getOptionLabel) is sent instead of the original label.
MappedAnswersDisplayed ==
    LET qs == examData.questions
        selected == {i \in 1..Len(qs) : HasKey(answers, qs[i].id)}
    IN  [id \in {qs[i].id : i \in selected} |-> Labels[answers[id] + 1]]
\* mappedAnswers of performSubmit: the selected position of every question of
\* the loaded exam, mapped to its original label.
MappedAnswers ==
    LET qs == examData.questions
        selected == {i \in 1..Len(qs) : HasKey(answers, qs[i].id)}
    IN  [id \in {qs[i].id : i \in selected} |->
            LET q == CHOOSE x \in SeqRange(qs) : x.id = id
            IN  q.optionMapping[answers[id]]]

-----------------------------------------------------------------------------
(* The admin-users endpoint (api/admin-users.js) *)

AccountIds == {"a1", "u1", "u2"}
KnownProfessions == {"p1"}

\* The accounts before any request: administrator a1 and user u1.
InitialAuthUsers ==
    [id \in {"a1", "u1"} |-> [email |-> IF id = "a1" THEN "e_a1" ELSE "e_u1",
                              password |-> "pw1"]]
InitialProfiles ==
    [id \in {"a1", "u1"} |->
        [email |-> IF id = "a1" THEN "e_a1" ELSE "e_u1",
         full_name |-> "n1",
         role |-> IF id = "a1" THEN "ADMIN" ELSE "USER",
         profession_id |-> IF id = "a1" THEN NULL ELSE "p1",
         health_authority_id |-> NULL,
         daily_mcq_limit |-> NullInt,
         is_active |-> TRUE]]

\* A map without key k, and a map with key k set to v.
Without(m, k) == [x \in DOMAIN m \ {k} |-> m[x]]
With(m, k, v) == [x \in DOMAIN m \cup {k} |-> IF x = k THEN v ELSE m[x]]

\* send(res, status, payload), with the store the request leaves behind
NoData == [id |-> NULL]
Reply(status, msg, auth, profiles) ==
    [status |-> status, kind |-> "error", error |-> msg, data |-> NoData,
     auth |-> auth, profiles |-> profiles]
ReplyData(data, auth, profiles) ==
    [status |-> 200, kind |-> "data", error |-> "", data |-> data,
     auth |-> auth, profiles |-> profiles]
NoResponse == [status |-> 0, kind |-> "none", error |-> "", data |-> NoData]

\* getTokenFromRequest: NULL stands for a header that is absent or not a
\* Bearer header.  A token is written as the id of the account it was issued to.
Tokens == {NULL, "garbage"} \cup AccountIds

\* Faulty variant of ensureAdmin: any resolved account passes.
ensureAdminAnyAccount(accessToken) ==
    IF accessToken = NULL THEN "Missing access token"
    ELSE IF accessToken \notin DOMAIN auth_users THEN "Invalid session token"
    ELSE NoError
\* ensureAdmin(accessToken): the error it returns, NoError when it returns a userId
ensureAdmin(accessToken) ==
    IF accessToken = NULL THEN "Missing access token"
    ELSE IF accessToken \notin DOMAIN auth_users THEN "Invalid session token"
    ELSE IF \/ accessToken \notin DOMAIN account_profiles
            \/ account_profiles[accessToken].role # "ADMIN"
         THEN "Admin privileges required"
    ELSE NoError

\* The foreign keys of a user_profiles row are satisfied.
ProfileRowAccepted(professionId) ==
    professionId = NULL \/ professionId \in KnownProfessions

\* createUser(payload); cleanupFails: the deleteUser call of the cleanup fails,
\* which the code does not look at
createUser(payload, cleanupFails) ==
    IF NULL \in {payload.email, payload.password, payload.fullName}
    THEN Reply(400, "email, password and fullName are required",
               auth_users, account_profiles)
    ELSE IF \E id \in DOMAIN auth_users : auth_users[id].email = payload.email
    THEN Reply(400, "A user with this email address has already been registered",
               auth_users, account_profiles)
    ELSE LET id == CHOOSE x \in AccountIds : x \notin DOMAIN auth_users
             created == With(auth_users, id,
                             [email |-> payload.email, password |-> payload.password])
             profile == [email |-> payload.email,
                         full_name |-> payload.fullName,
                         role |-> "USER",
                         profession_id |-> payload.professionId,
                         health_authority_id |-> payload.healthAuthorityId,
                         daily_mcq_limit |-> payload.dailyMcqLimit,
                         is_active |-> payload.isActive # "false"]
         IN  IF ~ProfileRowAccepted(payload.professionId)
             THEN Reply(400, "violates foreign key constraint",
                        IF cleanupFails THEN created ELSE Without(created, id),
                        account_profiles)
             ELSE ReplyData(profile, created, With(account_profiles, id, profile))

\* updateUser(payload)
updateUser(payload) ==
    IF payload.id = NULL
    THEN Reply(400, "id is required", auth_users, account_profiles)
    ELSE IF payload.password # NULL /\ payload.id \notin DOMAIN auth_users
    THEN Reply(400, "User not found", auth_users, account_profiles)
    ELSE LET auth == IF payload.password # NULL
                     THEN [auth_users EXCEPT ![payload.id].password = payload.password]
                     ELSE auth_users
         IN  IF \/ payload.id \notin DOMAIN account_profiles
                \/ ~ProfileRowAccepted(payload.professionId)
             THEN Reply(400, "Failed to update profile", auth, account_profiles)
             ELSE LET old == account_profiles[payload.id]
                      data == [old EXCEPT
                                 !.full_name = IF payload.fullName = NULL THEN @
                                               ELSE payload.fullName,
                                 !.profession_id = payload.professionId,
                                 !.health_authority_id = payload.healthAuthorityId,
                                 !.daily_mcq_limit = payload.dailyMcqLimit,
                                 !.is_active = IF payload.isActive = NULL THEN @
                                               ELSE payload.isActive = "true"]
                  IN  ReplyData(data, auth, With(account_profiles, payload.id, data))

\* Faulty variant of deleteUser: the error of the identity provider is ignored.
deleteUserIgnoringError(payload) ==
    IF payload.id = NULL
    THEN Reply(400, "id is required", auth_users, account_profiles)
    ELSE ReplyData([id |-> payload.id], Without(auth_users, payload.id),
                   Without(account_profiles, payload.id))
\* deleteUser(payload); the user_profiles row goes with the account (ON DELETE CASCADE)
deleteUser(payload) ==
    IF payload.id = NULL
    THEN Reply(400, "id is required", auth_users, account_profiles)
    ELSE IF payload.id \notin DOMAIN auth_users
    THEN Reply(400, "User not found", auth_users, account_profiles)
    ELSE ReplyData([id |-> payload.id], Without(auth_users, payload.id),
                   Without(account_profiles, payload.id))

\* handler(req, res): what it sends and the store it leaves
handler(req, cleanupFails) ==
    IF req.method = "OPTIONS"
    THEN [status |-> 204, kind |-> "empty", error |-> "", data |-> NoData,
          auth |-> auth_users, profiles |-> account_profiles]
    ELSE IF req.method \notin {"POST", "PUT", "DELETE"}
    THEN Reply(405, "Method not allowed", auth_users, account_profiles)
    ELSE IF ensureAdmin(req.token) # NoError
    THEN Reply(401, ensureAdmin(req.token), auth_users, account_profiles)
    ELSE IF req.method = "POST" THEN createUser(req.body, cleanupFails)
    ELSE IF req.method = "PUT" THEN updateUser(req.body)
    ELSE deleteUser(req.body)

\* The request bodies sent to the endpoint.  NULL is a field that is absent;
\* dailyMcqLimit NullInt is one that is not a number.
Payloads ==
    [email : {NULL, "e_u1", "e_new"}, password : {NULL, "pw2"},
     fullName : {NULL, "n2"}, professionId : {NULL, "px"},
     healthAuthorityId : {NULL}, dailyMcqLimit : {NullInt}, isActive : {NULL},
     id : {NULL} \cup AccountIds]

\* The fields of the body that the method reads; the others are absent.
BodiesOf(method) ==
    IF method = "POST" THEN {b \in Payloads : b.id = NULL}
    ELSE IF method = "PUT" THEN {b \in Payloads : b.email = NULL}
    ELSE IF method = "DELETE"
         THEN {b \in Payloads : /\ b.email = NULL /\ b.password = NULL
                                /\ b.fullName = NULL /\ b.professionId = NULL}
    ELSE {b \in Payloads : /\ b.email = NULL /\ b.password = NULL /\ b.id = NULL
                           /\ b.fullName = NULL /\ b.professionId = NULL}

Methods == {"OPTIONS", "GET", "POST", "PUT", "DELETE"}
NoRequest == [method |-> "none", token |-> NULL,
              body |-> CHOOSE b \in BodiesOf("GET") : TRUE]

InitAdminApi ==
    /\ auth_users = InitialAuthUsers
    /\ account_profiles = InitialProfiles
    /\ request = NoRequest
    /\ response = NoResponse
    /\ handled = 0

-----------------------------------------------------------------------------
(* Actions *)

Store == <<user_profile, exam_access, rlsEnabled, exam, questions>>

\* The state of the other pages, which the exam page leaves alone.
AdminApi == <<auth_users, account_profiles, request, response, handled>>
\* The confirmation dialog, the overall timer and the submissions in flight.
Dialog == <<isSubmitting, showConfirmModal, submitContext, timeRemaining, mutations>>
Rest == <<availableExams, AdminApi, tabs, calls, Dialog>>

\* The option draws of a getExam call: one draw of drawSet per candidate
\* question, or the same draw of drawSet for every candidate question.
IndependentDraws(drawSet) == [SeqRange(AvailableQuestions) -> drawSet]
SharedDraws(drawSet) == {[id \in SeqRange(AvailableQuestions) |-> d] : d \in drawSet}

\* A call of getExam (TakeExam's query), its option draws taken from optDrawFns.
GetExam(optDrawFns) ==
    /\ \E eqNullFails \in BOOLEAN, orderDraws \in Draws(Len(AvailableQuestions)),
          optDraws \in optDrawFns :
            examData' = getExam(eqNullFails, orderDraws, optDraws)
    /\ answers' = EmptyMap
    /\ submittedQuestions' = {}
    /\ results' = NoResults
    /\ UNCHANGED <<Store, exam_attempts, daily_mcq_usage, Rest>>

\* A call of getAvailableExams (the exam list of the user)
GetAvailableExams ==
    /\ \E eqNullFails \in BOOLEAN : availableExams' = getAvailableExams(eqNullFails)
    /\ UNCHANGED <<Store, exam_attempts, daily_mcq_usage, examData, answers,
                   submittedQuestions, results, AdminApi, tabs, calls, Dialog>>

\* handleAnswerChange(questionId, answer) from the radio button of a displayed
\* position of a question of the loaded exam (any question can be the current
\* one through handleNext and handlePrevious)
HandleAnswerChange ==
    /\ examData.error = NoError
    /\ \E i \in 1..Len(examData.questions), position \in Positions :
          /\ examData.questions[i].id \notin submittedQuestions
          /\ answers' = [k \in DOMAIN answers \cup {examData.questions[i].id} |->
                            IF k = examData.questions[i].id THEN position ELSE answers[k]]
    /\ UNCHANGED <<Store, exam_attempts, daily_mcq_usage, examData,
                   submittedQuestions, results, Rest>>

\* handleQuestionSubmit(questionId), or the expiry of the per-question timer:
\* the question is marked submitted, answered or not
HandleQuestionSubmit ==
    /\ examData.error = NoError
    /\ \E i \in 1..Len(examData.questions) :
          /\ examData.questions[i].id \notin submittedQuestions
          /\ submittedQuestions' = submittedQuestions \cup {examData.questions[i].id}
    /\ UNCHANGED <<Store, exam_attempts, daily_mcq_usage, examData, answers, results,
                   Rest>>

\* performSubmit and the submitExam call of submitMutation
PerformSubmit ==
    /\ examData.error = NoError
    /\ BagCardinality(exam_attempts) < MaxAttempts
    /\ submitExam(MappedAnswers, OnTime)
    /\ UNCHANGED <<Store, Rest>>

\* The answers maps a direct caller of submitExam passes.
\* Every question key of the map carries the same value: a label (the correct
\* one of q1, a wrong one of the others) or null; the foreign key carries a
\* value outside A..D.
AnswerValues == {"A", NULL}
SubmittedAnswers ==
    {[k \in K |-> IF k = ForeignKey THEN "X" ELSE v] :
        K \in SUBSET (DOMAIN questions \cup {ForeignKey}), v \in AnswerValues}

\* A call of submitExam with any answers map and a time spent out of times
SubmitExamTimed(times) ==
    /\ BagCardinality(exam_attempts) < MaxAttempts
    /\ \E a \in SubmittedAnswers, timeSpent \in times : submitExam(a, timeSpent)
    /\ UNCHANGED <<Store, Rest>>

\* A call of submitExam with any answers map, within the exam's duration
SubmitExam == SubmitExamTimed({OnTime})

\* One request answered by the admin-users handler
Handler ==
    /\ handled < MaxRequests
    /\ \E method \in Methods, token \in Tokens, cleanupFails \in BOOLEAN :
          \E body \in BodiesOf(method) :
             LET req == [method |-> method, token |-> token, body |-> body]
                 r == handler(req, cleanupFails)
             IN  /\ request' = req
                 /\ response' = [status |-> r.status, kind |-> r.kind,
                                 error |-> r.error, data |-> r.data]
                 /\ auth_users' = r.auth
                 /\ account_profiles' = r.profiles
    /\ handled' = handled + 1
    /\ UNCHANGED <<Store, exam_attempts, daily_mcq_usage, examData, answers,
                   submittedQuestions, results, availableExams, tabs, calls, Dialog>>

-----------------------------------------------------------------------------
(* Specifications *)

Roles == {"ADMIN", "USER"}
Limits == {NullInt} \cup (0..MaxLimit)
UserGrant == [user_id |-> UserId, profession_id |-> NULL, health_authority_id |-> NULL]

\* The pool of n questions whose correct labels are A, B, C, D in turn.
LabelledPool(n) ==
    [id \in SeqRange(PoolSeq(n)) |->
        QuestionRow(id, Labels[CHOOSE i \in 1..n : QuestionIds[i] = id])]

\* The option draws the query-level specification takes.
SomeOptionDraws == {d \in Draws(4) : d[4] = d[3] /\ d[3] = d[2]}

InitClient ==
    /\ examData = NoExamData
    /\ answers = EmptyMap
    /\ submittedQuestions = {}
    /\ results = NoResults
    /\ availableExams = NoAvailableExams
    /\ tabs = ClosedTabs
    /\ calls = IdleCalls
    /\ isSubmitting = FALSE
    /\ showConfirmModal = FALSE
    /\ submitContext = "manual"
    /\ timeRemaining = 0
    /\ mutations = <<>>

\* Query level: getExam and submitExam called in any order with any answers.
Init ==
    /\ user_profile \in [role : Roles, profession_id : {"p1"},
                         health_authority_id : {"h1"}, daily_mcq_limit : Limits]
    /\ exam_access \in {{}, {UserGrant}}
    /\ rlsEnabled \in BOOLEAN
    /\ exam = ActiveExam
    /\ questions = LabelledPool(NumQuestions)
    /\ exam_attempts = EmptyBag
    /\ daily_mcq_usage = NullInt
    /\ InitClient
    /\ InitAdminApi

Next ==
    \/ GetExam(IndependentDraws(SomeOptionDraws))
    \/ SubmitExam

Spec == Init /\ [][Next]_vars

-----------------------------------------------------------------------------
(* Properties of question selection (specification Spec) *)

PoolIds == DOMAIN questions
ReturnedIds == {examData.questions[i].id : i \in 1..Len(examData.questions)}
GetExamReturned == examData.error = NoError
GetExamCalled == examData.error # "none"

\* The keys of the answers maps of the recorded attempts.
RecordedKeys == UNION {DOMAIN row.answers : row \in BagToSet(exam_attempts)}
\* The ids that carry an answer (a value other than null) in a recorded attempt.
RecordedAnswered ==
    UNION {{k \in DOMAIN row.answers : row.answers[k] # NULL} : row \in BagToSet(exam_attempts)}

HasQuota == user_profile.daily_mcq_limit # NullInt
RemainingQuota ==
    user_profile.daily_mcq_limit - (IF daily_mcq_usage = NullInt THEN 0 ELSE daily_mcq_usage)

\* C1: getExam never returns a question whose id is a key of the answers map
\* of an attempt the user already has recorded for the exam.
C1_NoRecordedQuestionReturned ==
    GetExamReturned => ReturnedIds \cap RecordedKeys = {}

\* C1 witness: getExam returned questions while an attempt with a pool
\* question among its keys is recorded.
C1_Witness ==
    /\ GetExamReturned
    /\ ReturnedIds # {}
    /\ RecordedKeys \cap PoolIds # {}

\* C2: without a daily quota, the ids getExam returns are the pool minus the
\* ids answered in the user's prior attempts.
C2_ReturnsPoolMinusAnswered ==
    (GetExamReturned /\ ~HasQuota) => ReturnedIds = PoolIds \ RecordedAnswered

\* C3 as stated: once every pool question has been answered, a getExam call
\* fails with the already-completed error.
C3_CompletedErrorAlways ==
    (GetExamCalled /\ PoolIds \subseteq RecordedAnswered) => examData.error = CompletedError

\* The caller passes getExam's access check and can read the active exam.
C3_PassesAccessCheck ==
    /\ exam.is_active
    /\ \/ user_profile.role = "ADMIN"
       \/ ~rlsEnabled /\ \E g \in exam_access : g.user_id = UserId

\* C3 amended: once every pool question has been answered, a getExam call
\* returns no exam data; its error is the already-completed one when the caller
\* passes the access check and the exam is active, and the no-access or exam
\* query error otherwise.
C3_CompletedOrDenied ==
    (GetExamCalled /\ PoolIds \subseteq RecordedAnswered) =>
        /\ examData.questions = <<>>
        /\ IF C3_PassesAccessCheck THEN examData.error = CompletedError
           ELSE examData.error \in {NoAccessError, ExamQueryError}

\* C3 witness: every pool question is answered and getExam failed with the
\* already-completed error.
C3_Witness ==
    /\ PoolIds \subseteq RecordedAnswered
    /\ examData.error = CompletedError

C6_CorrectAtMostTotal ==
    /\ \A row \in BagToSet(exam_attempts) : row.correct_answers <= row.total_questions
    /\ results.error = NoError =>
          results.attempt.correct_answers <= results.attempt.total_questions

\* C6 witness: an inserted attempt whose answers hold a key outside the pool, a
\* value outside A..D and a correct answer.
C6_Witness ==
    /\ results.error = NoError
    /\ results.attempt.correct_answers > 0
    /\ ForeignKey \in DOMAIN results.attempt.answers
    /\ results.attempt.answers[ForeignKey] \notin LabelSet

-----------------------------------------------------------------------------
(* Properties of scoring and of the returned exam data (specification Spec) *)

RECURSIVE CumulativeCorrectOf(_, _)
CumulativeCorrectOf(B, rows) ==
    IF rows = {} THEN 0
    ELSE LET r == CHOOSE x \in rows : TRUE
         IN  B[r] * r.correct_answers + CumulativeCorrectOf(B, rows \ {r})

RECURSIVE CumulativeAnsweredOf(_, _)
CumulativeAnsweredOf(B, rows) ==
    IF rows = {} THEN 0
    ELSE LET r == CHOOSE x \in rows : TRUE
         IN  B[r] * NormalizeAttempt(r, NullInt).answeredCount
                 + CumulativeAnsweredOf(B, rows \ {r})

\* Correct and answered counts summed over all of the user's attempts.
CumulativeCorrect == CumulativeCorrectOf(exam_attempts, BagToSet(exam_attempts))
CumulativeAnswered == CumulativeAnsweredOf(exam_attempts, BagToSet(exam_attempts))

\* C8: the primary score submitExam derives is correct answers over the daily
\* quota when the user has a quota, and cumulative correct over cumulative
\* answered across all of the user's attempts otherwise.
C8_PrimaryScore ==
    results.error = NoError =>
        IF user_profile.daily_mcq_limit # NullInt
        THEN user_profile.daily_mcq_limit > 0 =>
                FracEq(results.score,
                       Frac(100 * results.correctAnswers, user_profile.daily_mcq_limit))
        ELSE CumulativeAnswered > 0 =>
                FracEq(results.score, Frac(100 * CumulativeCorrect, CumulativeAnswered))

\* C9: the question objects getExam returns do not depend on the questions'
\* correct answers: each returned object is also a possible return for the exam
\* that differs from this one only in that question's correct_answer.
C9_ReturnHidesCorrectAnswer ==
    GetExamReturned =>
        \A i \in 1..Len(examData.questions) : \A c \in LabelSet :
            \E d \in Draws(4) :
                RandomizeOptions(
                    [questions[examData.questions[i].id] EXCEPT !.correct_answer = c], d)
                  = examData.questions[i]

-----------------------------------------------------------------------------
(* The TakeExam page: specification SpecSession *)

\* getOptionText(question, position) of the page: the text shown at a position
GetOptionText(question, position) ==
    CASE position = 0 -> question.option_a
      [] position = 1 -> question.option_b
      [] position = 2 -> question.option_c
      [] position = 3 -> question.option_d

\* The pool of n questions of LabelledPool with c the correct label of the first.
SessionPool(n, c) ==
    [id \in SeqRange(PoolSeq(n)) |->
        IF id = QuestionIds[1] THEN QuestionRow(id, c) ELSE LabelledPool(n)[id]]

\* A user holding a grant of their own opens the exam page, selects options,
\* submits questions and submits the exam; every option order can be drawn,
\* the same one for all questions of a call.
InitSession ==
    /\ user_profile \in [role : {"USER"}, profession_id : {"p1"},
                         health_authority_id : {"h1"}, daily_mcq_limit : {NullInt, 1}]
    /\ exam_access = {UserGrant}
    /\ rlsEnabled = FALSE
    /\ exam = ActiveExam
    /\ questions \in {SessionPool(SessionQuestions, c) : c \in LabelSet}
    /\ exam_attempts = EmptyBag
    /\ daily_mcq_usage = NullInt
    /\ InitClient
    /\ InitAdminApi

\* The page is opened and its query runs getExam once; the exam it loaded is
\* kept until the page is left.
OpenExamPage ==
    /\ examData.error # NoError
    /\ GetExam(SharedDraws(Draws(4)))

NextSession ==
    \/ OpenExamPage
    \/ HandleAnswerChange
    \/ HandleQuestionSubmit
    \/ PerformSubmit

SpecSession == InitSession /\ [][NextSession]_vars

\* C5: for every question getExam returns, optionMapping and reverseMapping are
\* mutually inverse: reverseMapping[optionMapping[p]] = p for every position p
\* of 0..3 and optionMapping[reverseMapping[L]] = L for every label L of A..D.
C5_MappingsMutuallyInverse ==
    GetExamReturned =>
        \A i \in 1..Len(examData.questions) :
            LET q == examData.questions[i]
            IN  /\ \A p \in Positions :
                      /\ HasKey(q.reverseMapping, q.optionMapping[p])
                      /\ q.reverseMapping[q.optionMapping[p]] = p
                /\ \A L \in LabelSet :
                      /\ HasKey(q.reverseMapping, L)
                      /\ q.optionMapping[q.reverseMapping[L]] = L

\* C5 witness: getExam returned a question none of whose options is displayed
\* at the position of its own label.
C5_Witness ==
    /\ GetExamReturned
    /\ \E i \in 1..Len(examData.questions) :
          \A p \in Positions : examData.questions[i].optionMapping[p] # Labels[p + 1]

\* The text of the option of a questions row that carries label L.
TextOfLabel(row, L) ==
    (CHOOSE o \in SeqRange(OptionsOf(row)) : o.label = L).text

\* On the page, the option selected for loaded question q is the one whose
\* original label is the stored correct_answer of q.
SelectedCorrectOption(q) ==
    /\ HasKey(answers, q.id)
    /\ GetOptionText(q, answers[q.id])
           = TextOfLabel(questions[q.id], questions[q.id].correct_answer)

\* C7: when the page submits, a question counts toward the attempt's
\* correct_answers if and only if the option selected for it on the page, a
\* displayed position, is the option whose original label is the question's
\* stored correct_answer.
C7_ScoresSelectedOption ==
    [][(results' # results /\ results'.error = NoError) =>
          /\ results'.attempt.correct_answers =
                 Cardinality({i \in 1..Len(examData.questions) :
                                 SelectedCorrectOption(examData.questions[i])})
          /\ \A i \in 1..Len(examData.questions) :
                LET id == examData.questions[i].id
                IN  (/\ HasKey(results'.attempt.answers, id)
                     /\ results'.attempt.answers[id] = questions[id].correct_answer)
                    <=> SelectedCorrectOption(examData.questions[i])]_vars

\* C7 witness: the page submitted an attempt that scored a question whose
\* correct label is not the first one.
C7_Witness ==
    /\ results.error = NoError
    /\ results.attempt.correct_answers > 0
    /\ \E id \in DOMAIN results.attempt.answers :
          /\ id \in DOMAIN questions
          /\ results.attempt.answers[id] = questions[id].correct_answer
          /\ questions[id].correct_answer # "A"

-----------------------------------------------------------------------------
(* Access grants: specification SpecAccess *)

UserIds == {NULL, UserId, "u2"}
ProfessionIds == {NULL, "p1", "p2"}
HealthAuthorityIds == {NULL, "h1"}

\* The exam_access rows administrators create: a grant to one user, or a grant
\* to a profession, a health authority or both (CONSTRAINT at_least_one_access).
GrantRows ==
    {g \in [user_id : UserIds, profession_id : ProfessionIds,
            health_authority_id : HealthAuthorityIds] :
        /\ g.user_id # NULL \/ g.profession_id # NULL \/ g.health_authority_id # NULL
        /\ g.user_id # NULL => g.profession_id = NULL /\ g.health_authority_id = NULL}

\* createExamAccess(accessData), by an administrator
CreateExamAccess ==
    /\ Cardinality(exam_access) < MaxGrants
    /\ \E g \in GrantRows \ exam_access : exam_access' = exam_access \cup {g}
    /\ UNCHANGED <<user_profile, rlsEnabled, exam, questions, exam_attempts,
                   daily_mcq_usage, examData, answers, submittedQuestions, results, Rest>>

\* deleteExamAccess(id), by an administrator
DeleteExamAccess ==
    /\ \E g \in exam_access : exam_access' = exam_access \ {g}
    /\ UNCHANGED <<user_profile, rlsEnabled, exam, questions, exam_attempts,
                   daily_mcq_usage, examData, answers, submittedQuestions, results, Rest>>

\* updateExam(id, {is_active}), by an administrator
UpdateExam ==
    /\ exam' = [exam EXCEPT !.is_active = ~exam.is_active]
    /\ UNCHANGED <<user_profile, exam_access, rlsEnabled, questions, exam_attempts,
                   daily_mcq_usage, examData, answers, submittedQuestions, results, Rest>>

\* Any user, with or without a profession and a health authority, opens the exam
\* while administrators create and delete grants and switch the exam on and off.
InitAccess ==
    /\ user_profile \in [role : Roles, profession_id : {NULL, "p1"},
                         health_authority_id : {NULL, "h1"}, daily_mcq_limit : {NullInt}]
    /\ exam_access = {}
    /\ rlsEnabled \in BOOLEAN
    /\ exam = ActiveExam
    /\ questions = LabelledPool(NumQuestions)
    /\ exam_attempts = EmptyBag
    /\ daily_mcq_usage = NullInt
    /\ InitClient
    /\ InitAdminApi

NextAccess ==
    \/ GetExam(SharedDraws(SomeOptionDraws))
    \/ GetAvailableExams
    \/ CreateExamAccess
    \/ DeleteExamAccess
    \/ UpdateExam

SpecAccess == InitAccess /\ [][NextAccess]_vars

\* A grant of the exam names the user, the user's profession or the user's
\* health authority.
MatchingGrant ==
    \E g \in exam_access :
        \/ g.user_id = UserId
        \/ g.profession_id # NULL /\ g.profession_id = user_profile.profession_id
        \/ /\ g.health_authority_id # NULL
           /\ g.health_authority_id = user_profile.health_authority_id

\* A step that is a getExam call: the store and the exam list are left as they are.
GetExamStep == examData'.error # "none" /\ UNCHANGED <<Store, availableExams>>

\* C10: a getExam call of a non-admin user returns questions only if a grant of
\* the exam names the user, their profession or their health authority, and
\* fails with the no-access error when there is none; a getExam call of an
\* ADMIN never fails with the no-access error, whatever the grants.
C10_GrantRequired ==
    [][GetExamStep =>
          IF user_profile.role = "ADMIN"
          THEN examData'.error # NoAccessError
          ELSE /\ examData'.error = NoError => MatchingGrant
               /\ ~MatchingGrant => /\ examData'.error = NoAccessError
                                    /\ examData'.questions = <<>>]_vars

\* C10 witness: a non-admin user obtained questions while the only grants of
\* the exam name their profession or health authority, not the user.
C10_Witness ==
    /\ user_profile.role # "ADMIN"
    /\ GetExamReturned
    /\ examData.questions # <<>>
    /\ MatchingGrant
    /\ \A g \in exam_access : g.user_id # UserId

\* A grant of the exam that both getExam's filter and the SELECT policies of
\* exams and questions accept for the user.
GrantedByFilterAndPolicy == \E g \in exam_access : OrFilter(g) /\ PolicyGrant(g)

\* C11: with row-level security on, a non-admin user holding a matching grant
\* of the active exam (no attempt recorded, no quota) sees the exam in
\* getAvailableExams and obtains its questions from getExam.
C11_GrantedUserServed ==
    [][(/\ UNCHANGED Store
        /\ rlsEnabled
        /\ ~IsAdmin
        /\ exam.is_active
        /\ GrantedByFilterAndPolicy) =>
          /\ examData' # examData =>
                examData'.error = NoError /\ examData'.questions # <<>>
          /\ availableExams' # availableExams =>
                availableExams' = AvailableExamsResult(NoError, {ExamId})]_vars

-----------------------------------------------------------------------------
(* Properties of the daily quota (specification Spec) *)

\* C12: getExam returns no questions to a user whose usage counter of the
\* date is at or above their daily quota; the call fails with an error.
C12_NoQuestionsAtQuota ==
    (HasQuota /\ daily_mcq_usage # NullInt
        /\ daily_mcq_usage >= user_profile.daily_mcq_limit) =>
        /\ ~GetExamReturned
        /\ examData.questions = <<>>

\* C12 witness: getExam failed with the limit error for a user who has used up
\* a positive quota and still has candidate questions.
C12_Witness ==
    /\ HasQuota
    /\ user_profile.daily_mcq_limit > 0
    /\ daily_mcq_usage >= user_profile.daily_mcq_limit
    /\ PoolIds \ RecordedKeys # {}
    /\ examData.error = LimitError

\* The number of pool questions with a non-null answer in a recorded attempt.
PoolAnswered(row) ==
    Cardinality({k \in DOMAIN row.answers \cap PoolIds : row.answers[k] # NULL})

RECURSIVE SumPoolAnswered(_, _)
SumPoolAnswered(B, rows) ==
    IF rows = {} THEN 0
    ELSE LET r == CHOOSE x \in rows : TRUE
         IN  B[r] * PoolAnswered(r) + SumPoolAnswered(B, rows \ {r})

\* C13: a successful submitExam raises the usage counter of the date by the
\* number of pool questions with a non-null answer in the submission, creating
\* the row when there is none; after any sequence of submissions the counter
\* is the sum of their answered counts.
C13_UsageIsSumOfAnswered ==
    /\ [](IF exam_attempts = EmptyBag THEN daily_mcq_usage = NullInt
          ELSE daily_mcq_usage = SumPoolAnswered(exam_attempts, BagToSet(exam_attempts)))
    /\ [][exam_attempts' # exam_attempts =>
             /\ results'.error = NoError
             /\ results'.answeredCount = PoolAnswered(results'.attempt)
             /\ daily_mcq_usage' =
                    (IF daily_mcq_usage = NullInt THEN 0 ELSE daily_mcq_usage)
                        + results'.answeredCount]_vars

\* C13 witness: two attempts recorded, the counter above zero, and a
\* submission that carried a null answer and a key outside the pool.
C13_Witness ==
    /\ BagCardinality(exam_attempts) >= 2
    /\ daily_mcq_usage > 0
    /\ \E row \in BagToSet(exam_attempts) :
          /\ ForeignKey \in DOMAIN row.answers
          /\ \E k \in DOMAIN row.answers \cap PoolIds : row.answers[k] # NULL
    /\ \E row \in BagToSet(exam_attempts) :
          \E k \in DOMAIN row.answers : row.answers[k] = NULL

-----------------------------------------------------------------------------
(* The admin-users endpoint: specification SpecAdmin *)

\* Requests of any method, token and body reach the endpoint one after another;
\* the exam store is left alone.
InitAdmin ==
    /\ user_profile = [role |-> "USER", profession_id |-> "p1",
                       health_authority_id |-> "h1", daily_mcq_limit |-> NullInt]
    /\ exam_access = {UserGrant}
    /\ rlsEnabled = TRUE
    /\ exam = ActiveExam
    /\ questions = LabelledPool(NumQuestions)
    /\ exam_attempts = EmptyBag
    /\ daily_mcq_usage = NullInt
    /\ InitClient
    /\ InitAdminApi

NextAdmin == Handler

SpecAdmin == InitAdmin /\ [][NextAdmin]_vars

MutatingMethods == {"POST", "PUT", "DELETE"}

\* The token of the request is one the identity provider resolves to an
\* account whose user_profiles row has role ADMIN.
CallerIsAdmin(token) ==
    /\ token \in DOMAIN auth_users
    /\ token \in DOMAIN account_profiles
    /\ account_profiles[token].role = "ADMIN"

\* C14: the admin-users handler creates, updates or deletes no account unless
\* the request carries a token that resolves to an ADMIN; a POST, PUT or DELETE
\* with a missing or invalid token, or from a non-admin caller, gets an error
\* response, and the accounts and profiles stay as they were.
C14_OnlyAdminMutates ==
    [][handled' # handled =>
          /\ ~CallerIsAdmin(request'.token) =>
                /\ UNCHANGED <<auth_users, account_profiles>>
                /\ request'.method \in MutatingMethods =>
                      /\ response'.kind = "error"
                      /\ response'.status \in 400..599
          /\ ~UNCHANGED <<auth_users, account_profiles>> =>
                /\ CallerIsAdmin(request'.token)
                /\ request'.method \in MutatingMethods]_vars

\* C14 witness: a DELETE of the administrator's account sent with the token of
\* a non-admin account was refused and the account is still there.
C14_Witness ==
    /\ request.method = "DELETE"
    /\ request.token = "u1"
    /\ request.body.id = "a1"
    /\ response.status = 401
    /\ "a1" \in DOMAIN auth_users
    /\ "a1" \in DOMAIN account_profiles

\* The profile row a POST body asks for.
RequestedProfile(body) ==
    [email |-> body.email, full_name |-> body.fullName, role |-> "USER",
     profession_id |-> body.professionId,
     health_authority_id |-> body.healthAuthorityId,
     daily_mcq_limit |-> body.dailyMcqLimit, is_active |-> body.isActive # "false"]

\* The step has carried out the account mutation the request asks for.
Applied(req) ==
    IF req.method = "POST"
    THEN \E id \in AccountIds \ DOMAIN auth_users :
            /\ auth_users' = With(auth_users, id, [email |-> req.body.email,
                                                   password |-> req.body.password])
            /\ account_profiles' = With(account_profiles, id, RequestedProfile(req.body))
    ELSE IF req.method = "PUT"
    THEN /\ req.body.id \in DOMAIN account_profiles
         /\ DOMAIN account_profiles' = DOMAIN account_profiles
         /\ DOMAIN auth_users' = DOMAIN auth_users
         /\ \A id \in DOMAIN account_profiles \ {req.body.id} :
               account_profiles'[id] = account_profiles[id]
         /\ \A id \in DOMAIN auth_users \ {req.body.id} : auth_users'[id] = auth_users[id]
         /\ req.body.password # NULL =>
               /\ req.body.id \in DOMAIN auth_users
               /\ auth_users'[req.body.id].password = req.body.password
         /\ (req.body.password = NULL /\ req.body.id \in DOMAIN auth_users) =>
               auth_users'[req.body.id] = auth_users[req.body.id]
         /\ LET new == account_profiles'[req.body.id]
                old == account_profiles[req.body.id]
            IN  /\ new.full_name = IF req.body.fullName = NULL THEN old.full_name
                                   ELSE req.body.fullName
                /\ new.profession_id = req.body.professionId
                /\ new.health_authority_id = req.body.healthAuthorityId
                /\ new.daily_mcq_limit = req.body.dailyMcqLimit
                /\ new.is_active = IF req.body.isActive = NULL THEN old.is_active
                                   ELSE req.body.isActive = "true"
                /\ new.email = old.email /\ new.role = old.role
    ELSE /\ req.body.id \in DOMAIN auth_users
         /\ auth_users' = Without(auth_users, req.body.id)
         /\ account_profiles' = Without(account_profiles, req.body.id)

\* C15: every response of the admin-users handler to a POST, PUT or DELETE is
\* either status 200 with a {data} body, sent exactly when the requested account
\* mutation was applied, or a 4xx/5xx status with an {error: string} body.
C15_DataOrError ==
    [][(handled' # handled /\ request'.method \in MutatingMethods) =>
          IF response'.status = 200
          THEN /\ response'.kind = "data"
               /\ Applied(request')
          ELSE /\ response'.status \in 400..599
               /\ response'.kind = "error"
               /\ response'.error # ""
               /\ ~Applied(request') \/ UNCHANGED <<auth_users, account_profiles>>]_vars

\* C15 witness: a POST of an administrator was answered with 200 and the new
\* profile, and the account exists.
C15_Witness ==
    /\ request.method = "POST"
    /\ response.status = 200
    /\ response.kind = "data"
    /\ response.data.email = "e_new"
    /\ \E id \in DOMAIN auth_users : auth_users[id].email = "e_new"

-----------------------------------------------------------------------------
(* Submissions after the deadline: specification SpecTimed *)

TimesSpent == {OnTime, Late}

\* getExam and submitExam called in any order by a user who passes the access
\* check, submitExam with a time spent within or beyond the exam's duration.
InitTimed ==
    /\ user_profile \in [role : {"USER"}, profession_id : {"p1"},
                         health_authority_id : {"h1"}, daily_mcq_limit : {NullInt, 1}]
    /\ exam_access = {UserGrant}
    /\ rlsEnabled = FALSE
    /\ exam = ActiveExam
    /\ questions = LabelledPool(NumQuestions)
    /\ exam_attempts = EmptyBag
    /\ daily_mcq_usage = NullInt
    /\ InitClient
    /\ InitAdminApi

NextTimed ==
    \/ GetExam(SharedDraws(SomeOptionDraws))
    \/ SubmitExamTimed(TimesSpent)

SpecTimed == InitTimed /\ [][NextTimed]_vars

\* The time spent of a submission is beyond the exam's duration.
BeyondDuration(timeSpent) == timeSpent > exam.duration * 60

\* C16: submitExam records and scores a submission whatever its time spent: a
\* submission made beyond the exam's duration is recorded, and its score,
\* counts and usage are those of the same answers submitted within it.
C16_LateSubmissionScored ==
    [][(results' # results /\ results'.error # "none") =>
          LET a == results'.attempt.answers
              onTime == SubmitResults(a, OnTime)
          IN  /\ results'.error = NoError
              /\ [results' EXCEPT !.attempt.time_spent = OnTime] = onTime
              /\ exam_attempts' = exam_attempts (+) SetToBag({results'.attempt})
              /\ daily_mcq_usage' =
                     (IF daily_mcq_usage = NullInt THEN 0 ELSE daily_mcq_usage)
                         + onTime.answeredCount]_vars

\* C16 witness: a submission beyond the duration was recorded with a correct
\* answer counted.
C16_Witness ==
    /\ results.error = NoError
    /\ BeyondDuration(results.attempt.time_spent)
    /\ results.attempt.correct_answers > 0
    /\ BagIn(results.attempt, exam_attempts)

-----------------------------------------------------------------------------
(* Properties of the candidate set and of the shuffles *)

\* The pool questions whose only recorded values are null.
RecordedNullOnly == (RecordedKeys \cap PoolIds) \ RecordedAnswered

\* C17: a question whose recorded value in a prior attempt's answers map is
\* null is not treated as answered: a getExam call that returns, for a user
\* without quota, still includes it.
C17_NullValueStillCandidate ==
    (GetExamReturned /\ ~HasQuota) => RecordedNullOnly \subseteq ReturnedIds

\* C18: getExam's shuffles only permute: for a user without quota the returned
\* list holds every unanswered pool question exactly once, and the four option
\* texts of a returned question are a permutation of its original ones in which
\* position p carries the text of the original option labelled optionMapping[p].
C18_ShufflesPermute ==
    (GetExamReturned /\ ~HasQuota) =>
        /\ \A id \in PoolIds \ RecordedAnswered :
              Cardinality({i \in 1..Len(examData.questions) :
                              examData.questions[i].id = id}) = 1
        /\ \A i \in 1..Len(examData.questions) :
              LET q == examData.questions[i]
              IN  /\ {q.optionMapping[p] : p \in Positions} = LabelSet
                  /\ \A p \in Positions :
                        GetOptionText(q, p) = TextOfLabel(questions[q.id], q.optionMapping[p])

-----------------------------------------------------------------------------
(* Sessions under a daily quota, one after another: specification SpecQuota *)

\* A user with a daily quota and a grant of their own runs exam sessions one
\* after another: the page loads the exam, options are selected, the exam is
\* submitted.
InitQuota ==
    /\ user_profile \in [role : {"USER"}, profession_id : {"p1"},
                         health_authority_id : {"h1"}, daily_mcq_limit : 0..MaxLimit]
    /\ exam_access = {UserGrant}
    /\ rlsEnabled = FALSE
    /\ exam = ActiveExam
    /\ questions = LabelledPool(NumQuestions)
    /\ exam_attempts = EmptyBag
    /\ daily_mcq_usage = NullInt
    /\ InitClient
    /\ InitAdminApi

NextQuota ==
    \/ GetExam(SharedDraws(SomeOptionDraws))
    \/ HandleAnswerChange
    \/ PerformSubmit

SpecQuota == InitQuota /\ [][NextQuota]_vars

\* C19: for a user with daily quota L, in any sequence of exam sessions run
\* one after another on one date, each submission answering only questions the
\* preceding getExam returned, the usage counter of the date never exceeds L.
C19_SequentialWithinQuota ==
    HasQuota =>
        (IF daily_mcq_usage = NullInt THEN 0 ELSE daily_mcq_usage)
            <= user_profile.daily_mcq_limit

\* C19 witness: two sessions were submitted and together used up a quota that
\* is smaller than the pool or equal to it.
C19_Witness ==
    /\ HasQuota
    /\ BagCardinality(exam_attempts) = 2
    /\ daily_mcq_usage = user_profile.daily_mcq_limit
    /\ \A row \in BagToSet(exam_attempts) : PoolAnswered(row) > 0

-----------------------------------------------------------------------------
(* Two exam pages side by side: specification SpecConcurrent *)

\* The query of TakeExam in tab t: getExam reads the store as it is now.
TabGetExam(t) ==
    /\ tabs[t].examData.error = "none"
    /\ ~tabs[t].submitted
    /\ \E eqNullFails \in BOOLEAN, orderDraws \in Draws(Len(AvailableQuestions)),
          optDraws \in SharedDraws(SomeOptionDraws) :
            tabs' = [tabs EXCEPT ![t] =
                        [examData |-> getExam(eqNullFails, orderDraws, optDraws),
                         answers |-> EmptyMap,
                         submitted |-> FALSE]]
    /\ UNCHANGED <<Store, exam_attempts, daily_mcq_usage, examData, answers,
                   submittedQuestions, results, availableExams, AdminApi, calls,
                   Dialog>>

\* handleAnswerChange(questionId, answer) in tab t
TabAnswerChange(t) ==
    /\ tabs[t].examData.error = NoError
    /\ \E i \in 1..Len(tabs[t].examData.questions), position \in Positions :
          LET id == tabs[t].examData.questions[i].id
              old == tabs[t].answers
          IN  tabs' = [tabs EXCEPT ![t].answers =
                          [k \in DOMAIN old \cup {id} |->
                              IF k = id THEN position ELSE old[k]]]
    /\ UNCHANGED <<Store, exam_attempts, daily_mcq_usage, examData, answers,
                   submittedQuestions, results, availableExams, AdminApi, calls,
                   Dialog>>

\* mappedAnswers of performSubmit in tab t
TabMappedAnswers(t) ==
    LET qs == tabs[t].examData.questions
        selected == {i \in 1..Len(qs) : HasKey(tabs[t].answers, qs[i].id)}
    IN  [id \in {qs[i].id : i \in selected} |->
            LET q == CHOOSE x \in SeqRange(qs) : x.id = id
            IN  q.optionMapping[tabs[t].answers[id]]]

\* performSubmit and the submitExam call in tab t, once the getExam call of
\* every tab has completed: the attempt insert and the usage update or insert.
TabPerformSubmit(t) ==
    /\ \A u \in TabIds : tabs[u].examData.error # "none" \/ tabs[u].submitted
    /\ tabs[t].examData.error = NoError
    /\ LET a == TabMappedAnswers(t)
       IN  IF ~ExamSelectable
           THEN /\ results' = ResultsError(ExamQueryError)
                /\ UNCHANGED <<exam_attempts, daily_mcq_usage, tabs>>
           ELSE /\ exam_attempts' = exam_attempts (+) SetToBag({AttemptRow(a, OnTime)})
                /\ daily_mcq_usage' = Used + AnsweredCount(a, SelectedQuestions)
                /\ results' = SubmitResults(a, OnTime)
                /\ tabs' = [tabs EXCEPT ![t] =
                               [examData |-> NoExamData, answers |-> EmptyMap,
                                submitted |-> TRUE]]
    /\ UNCHANGED <<Store, examData, answers, submittedQuestions, availableExams,
                   AdminApi, calls, Dialog>>

\* A user with a grant of their own opens the exam in both tabs.
InitConcurrent ==
    /\ user_profile \in [role : {"USER"}, profession_id : {"p1"},
                         health_authority_id : {"h1"}, daily_mcq_limit : {NullInt, 1}]
    /\ exam_access = {UserGrant}
    /\ rlsEnabled = FALSE
    /\ exam = ActiveExam
    /\ questions = LabelledPool(SessionQuestions)
    /\ exam_attempts = EmptyBag
    /\ daily_mcq_usage = NullInt
    /\ InitClient
    /\ InitAdminApi

NextConcurrent ==
    \E t \in TabIds :
        \/ TabGetExam(t)
        \/ TabAnswerChange(t)
        \/ TabPerformSubmit(t)

SpecConcurrent == InitConcurrent /\ [][NextConcurrent]_vars

\* C20: when one user runs two exam sessions at once, both getExam calls
\* completing before either submitExam, the usage counter of the date does not
\* exceed the user's daily quota.
C20_ConcurrentWithinQuota ==
    (HasQuota /\ \A t \in TabIds : tabs[t].submitted) =>
        Used <= user_profile.daily_mcq_limit

-----------------------------------------------------------------------------
(* submitExam step by step: specifications SpecOverlap and SpecStoreFailures *)

\* Everything a step of a submitExam call leaves alone besides the attempts,
\* the usage counter and the calls.
CallRest == <<Store, examData, answers, submittedQuestions, results, availableExams,
              AdminApi, tabs, Dialog>>

\* The exam query of call c with answers a: examError is thrown when the query
\* fails; answeredCount and the score are computed from the row it returns.
SubmitExamQuery(c, failures) ==
    /\ calls[c].pc = "idle"
    /\ \E a \in SubmittedAnswers, fails \in failures :
          calls' = [calls EXCEPT ![c] =
                       [pc |-> IF fails \/ ~ExamSelectable THEN "thrown" ELSE "insert",
                        answers |-> a,
                        existingUsage |-> NullInt]]
    /\ UNCHANGED <<exam_attempts, daily_mcq_usage, CallRest>>

\* The attempt insert of call c: attemptError is thrown when the insert fails.
SubmitInsertAttempt(c, failures) ==
    /\ calls[c].pc = "insert"
    /\ \E fails \in failures :
          IF fails
          THEN /\ calls' = [calls EXCEPT ![c].pc = "thrown"]
               /\ UNCHANGED exam_attempts
          ELSE /\ calls' = [calls EXCEPT ![c].pc = "select"]
               /\ exam_attempts' =
                      exam_attempts (+) SetToBag({AttemptRow(calls[c].answers, OnTime)})
    /\ UNCHANGED <<daily_mcq_usage, CallRest>>

\* The usage select of call c (maybeSingle): existingUsage is the row of the
\* date, or nothing when there is none or the query fails; its error is not
\* looked at.
SubmitSelectUsage(c, failures) ==
    /\ calls[c].pc = "select"
    /\ \E fails \in failures :
          calls' = [calls EXCEPT ![c].pc = "write",
                                 ![c].existingUsage =
                                     IF fails THEN NullInt ELSE daily_mcq_usage]
    /\ UNCHANGED <<exam_attempts, daily_mcq_usage, CallRest>>

\* The usage update or insert of call c, whose error is not looked at: the
\* update writes existingUsage.mcq_count + answeredCount, the insert is refused
\* by UNIQUE(user_id, date) when the date has a row by now.
SubmitWriteUsage(c, failures) ==
    /\ calls[c].pc = "write"
    /\ LET answeredCount == AnsweredCount(calls[c].answers, SelectedQuestions)
       IN  \E fails \in failures :
              daily_mcq_usage' =
                  IF fails THEN daily_mcq_usage
                  ELSE IF calls[c].existingUsage # NullInt
                       THEN calls[c].existingUsage + answeredCount
                       ELSE IF daily_mcq_usage = NullInt THEN answeredCount
                            ELSE daily_mcq_usage
    /\ calls' = [calls EXCEPT ![c].pc = "done"]
    /\ UNCHANGED <<exam_attempts, CallRest>>

\* Every call has read the usage row of the date.
AllSelected == \A c \in CallIds : calls[c].pc \in {"write", "done"}
\* No call other than c is between its first and its last step.
NoneInFlightBut(c) ==
    \A d \in CallIds \ {c} : calls[d].pc \in {"idle", "done", "thrown"}

\* A granted user without a quota, after at most one earlier submission.
InitCalls(ledgers) ==
    /\ user_profile = [role |-> "USER", profession_id |-> "p1",
                       health_authority_id |-> "h1", daily_mcq_limit |-> NullInt]
    /\ exam_access = {UserGrant}
    /\ rlsEnabled = FALSE
    /\ exam = ActiveExam
    /\ questions = LabelledPool(SessionQuestions)
    /\ exam_attempts \in ledgers
    /\ daily_mcq_usage =
          IF exam_attempts = EmptyBag THEN NullInt
          ELSE SumPoolAnswered(exam_attempts, BagToSet(exam_attempts))
    /\ InitClient
    /\ InitAdminApi

\* Two calls that overlap: no call writes the usage row before every call has
\* read it; no store operation fails.
InitOverlap ==
    InitCalls({EmptyBag} \cup
              {SetToBag({AttemptRow(a, OnTime)}) :
                  a \in [DOMAIN LabelledPool(SessionQuestions) -> {"A"}]})

OverlappedWriteUsage(c) == AllSelected /\ SubmitWriteUsage(c, {FALSE})

NextOverlap ==
    \E c \in CallIds :
        \/ SubmitExamQuery(c, {FALSE})
        \/ SubmitInsertAttempt(c, {FALSE})
        \/ SubmitSelectUsage(c, {FALSE})
        \/ OverlappedWriteUsage(c)

SpecOverlap == InitOverlap /\ [][NextOverlap]_vars

\* Calls one after another, any store operation of which may fail.
InitStoreFailures == InitCalls({EmptyBag})

SequentialExamQuery(c) == NoneInFlightBut(c) /\ SubmitExamQuery(c, BOOLEAN)

NextStoreFailures ==
    \E c \in CallIds :
        \/ SequentialExamQuery(c)
        \/ SubmitInsertAttempt(c, BOOLEAN)
        \/ SubmitSelectUsage(c, BOOLEAN)
        \/ SubmitWriteUsage(c, BOOLEAN)

SpecStoreFailures == InitStoreFailures /\ [][NextStoreFailures]_vars

\* The answered count call c adds once it has returned.
DoneCount(c) ==
    IF calls[c].pc = "done"
    THEN AnsweredCount(calls[c].answers, SelectedQuestions) ELSE 0

RECURSIVE SumDoneCounts(_)
SumDoneCounts(S) ==
    IF S = {} THEN 0
    ELSE LET c == CHOOSE x \in S : TRUE
         IN  DoneCount(c) + SumDoneCounts(S \ {c})

\* C21: when two submitExam calls of one user and date overlap, each reading
\* the counter row before the other writes it, the counter ends at the value
\* both read plus the sum of the two answered counts.
C21_NoLostIncrement ==
    (\A c \in CallIds : calls[c].pc = "done") =>
        \A c \in CallIds :
            Used = (IF calls[c].existingUsage = NullInt THEN 0
                    ELSE calls[c].existingUsage) + SumDoneCounts(CallIds)

\* C22: with store operations that can fail, once no call is under way the
\* attempts recorded are those of the calls that returned, the counter is the
\* sum of their answered counts, and a call that threw left neither.
C22_AllOrNothing ==
    (\A c \in CallIds : calls[c].pc \in {"idle", "done", "thrown"}) =>
        /\ BagCardinality(exam_attempts) =
              Cardinality({c \in CallIds : calls[c].pc = "done"})
        /\ Used = SumDoneCounts(CallIds)

-----------------------------------------------------------------------------
(* The per-question timer: specification SpecQuestionTimer *)

\* The per-question timer of the current question reaches zero: the question
\* is marked submitted (any question that is not submitted can be the current
\* one, and its timer starts at 30 whenever it becomes current).
QuestionTimerExpires ==
    /\ examData.error = NoError
    /\ \E i \in 1..Len(examData.questions) :
          /\ examData.questions[i].id \notin submittedQuestions
          /\ submittedQuestions' = submittedQuestions \cup {examData.questions[i].id}
    /\ UNCHANGED <<Store, exam_attempts, daily_mcq_usage, examData, answers, results,
                   Rest>>

\* The page is opened and its query runs getExam once.
OpenTimedPage ==
    /\ examData.error # NoError
    /\ GetExam(SharedDraws(SomeOptionDraws))

\* A granted user without a quota takes the exam and never presses Submit
\* Answer: a question is marked submitted by its timer only.
InitQuestionTimer ==
    /\ user_profile = [role |-> "USER", profession_id |-> "p1",
                       health_authority_id |-> "h1", daily_mcq_limit |-> NullInt]
    /\ exam_access = {UserGrant}
    /\ rlsEnabled = FALSE
    /\ exam = ActiveExam
    /\ questions \in {SessionPool(SessionQuestions, c) : c \in LabelSet}
    /\ exam_attempts = EmptyBag
    /\ daily_mcq_usage = NullInt
    /\ InitClient
    /\ InitAdminApi

NextQuestionTimer ==
    \/ OpenTimedPage
    \/ HandleAnswerChange
    \/ QuestionTimerExpires
    \/ PerformSubmit

SpecQuestionTimer == InitQuestionTimer /\ [][NextQuestionTimer]_vars

\* C23: a question whose per-question timer expired is locked, its selection
\* changes no more, and it contributes no answer to the exam submission,
\* whatever was selected before the expiry.
C23_ExpiredQuestionNotAnswered ==
    [][/\ examData' = examData =>
              \A id \in submittedQuestions :
                  /\ HasKey(answers', id) <=> HasKey(answers, id)
                  /\ HasKey(answers, id) => answers'[id] = answers[id]
       /\ exam_attempts' # exam_attempts =>
              \A id \in submittedQuestions : ~HasKey(results'.attempt.answers, id)]_vars

-----------------------------------------------------------------------------
(* The confirmation dialog and the overall timer: specification SpecDialog *)

OtherPages == <<availableExams, AdminApi, tabs, calls>>

\* The page is mounted: its state is the initial one, its query runs getExam,
\* and the effect on examData starts the overall timer at the exam's duration.
MountTakeExam ==
    /\ examData.error = "none"
    /\ exam_attempts = EmptyBag
    /\ \E eqNullFails \in BOOLEAN, orderDraws \in Draws(Len(AvailableQuestions)),
          optDraws \in SharedDraws(SomeOptionDraws) :
            examData' = getExam(eqNullFails, orderDraws, optDraws)
    /\ answers' = EmptyMap
    /\ submittedQuestions' = {}
    /\ results' = NoResults
    /\ isSubmitting' = FALSE
    /\ showConfirmModal' = FALSE
    /\ submitContext' = "manual"
    /\ timeRemaining' = IF examData'.error = NoError THEN exam.duration * 60 ELSE 0
    /\ UNCHANGED <<Store, exam_attempts, daily_mcq_usage, mutations, OtherPages>>

\* openSubmitConfirmModal(context)
openSubmitConfirmModal(context) ==
    IF examData.error # NoError
    THEN UNCHANGED <<showConfirmModal, submitContext>>
    ELSE /\ showConfirmModal' = TRUE
         /\ submitContext' = context

\* The isSubmitting that the interval callback of the overall timer reads: the
\* callback is created by the effect on [startTime, examData] and keeps the
\* handleAutoSubmit of that render, in which no submission had been started.
IsSubmittingAtTimerStart == FALSE

\* The overall timer reaches zero: the interval is cleared and handleAutoSubmit
\* opens the dialog in the time context.
OverallTimerExpires ==
    /\ examData.error = NoError
    /\ timeRemaining > 0
    /\ timeRemaining' = 0
    /\ IF IsSubmittingAtTimerStart
       THEN UNCHANGED <<showConfirmModal, submitContext>>
       ELSE openSubmitConfirmModal("time")
    /\ UNCHANGED <<Store, exam_attempts, daily_mcq_usage, examData, answers,
                   submittedQuestions, results, isSubmitting, mutations, OtherPages>>

\* The Finish Exam button, disabled while isSubmitting:
\* openSubmitConfirmModal('manual')
FinishExam ==
    /\ examData.error = NoError
    /\ ~isSubmitting
    /\ openSubmitConfirmModal("manual")
    /\ UNCHANGED <<Store, exam_attempts, daily_mcq_usage, examData, answers,
                   submittedQuestions, results, isSubmitting, timeRemaining, mutations,
                   OtherPages>>

\* handleCancelSubmit, from the Cancel button or a click on the overlay
HandleCancelSubmit ==
    /\ examData.error = NoError
    /\ showConfirmModal
    /\ showConfirmModal' = (submitContext = "time")
    /\ UNCHANGED <<Store, exam_attempts, daily_mcq_usage, examData, answers,
                   submittedQuestions, results, isSubmitting, submitContext,
                   timeRemaining, mutations, OtherPages>>

\* Faulty variant of performSubmit: the submitting flag is not raised.
performSubmitUnflagged ==
    IF isSubmitting
    THEN UNCHANGED <<isSubmitting, mutations>>
    ELSE /\ isSubmitting' = isSubmitting
         /\ mutations' = Append(mutations,
                                [answers |-> MappedAnswers,
                                 timeSpent |-> IF timeRemaining > 0 THEN OnTime ELSE Late])
\* performSubmit: nothing while isSubmitting; otherwise the flag is raised,
\* the selected positions are mapped and submitMutation.mutate starts a call.
performSubmit ==
    IF isSubmitting
    THEN UNCHANGED <<isSubmitting, mutations>>
    ELSE /\ isSubmitting' = TRUE
         /\ mutations' = Append(mutations,
                                [answers |-> MappedAnswers,
                                 timeSpent |-> IF timeRemaining > 0 THEN OnTime ELSE Late])

\* handleConfirmSubmit, from the Confirm button of the dialog
HandleConfirmSubmit ==
    /\ examData.error = NoError
    /\ showConfirmModal
    /\ Len(mutations) < MaxPending
    /\ showConfirmModal' = FALSE
    /\ IF ~isSubmitting THEN performSubmit ELSE UNCHANGED <<isSubmitting, mutations>>
    /\ UNCHANGED <<Store, exam_attempts, daily_mcq_usage, examData, answers,
                   submittedQuestions, results, submitContext, timeRemaining,
                   OtherPages>>

\* The sequence q without its i-th element.
RemoveAt(q, i) == SubSeq(q, 1, i - 1) \o SubSeq(q, i + 1, Len(q))

\* A submitExam call of submitMutation settles. When it throws, onError and
\* onSettled release the flag and the page stays; when it returns, onSuccess
\* navigates to the results and the page is left.
MutationSettles ==
    \E i \in 1..Len(mutations), throws \in BOOLEAN :
        /\ mutations' = RemoveAt(mutations, i)
        /\ isSubmitting' = FALSE
        /\ IF throws \/ ~ExamSelectable
           THEN /\ results' = ResultsError(ExamQueryError)
                /\ UNCHANGED <<exam_attempts, daily_mcq_usage, examData, answers,
                               submittedQuestions, showConfirmModal, submitContext,
                               timeRemaining>>
           ELSE /\ submitExam(mutations[i].answers, mutations[i].timeSpent)
                /\ showConfirmModal' = FALSE
                /\ submitContext' = "manual"
                /\ timeRemaining' = 0
        /\ UNCHANGED <<Store, OtherPages>>

\* handleAnswerChange on the mounted page
DialogAnswerChange ==
    /\ examData.error = NoError
    /\ \E i \in 1..Len(examData.questions), position \in Positions :
          /\ examData.questions[i].id \notin submittedQuestions
          /\ answers' = [k \in DOMAIN answers \cup {examData.questions[i].id} |->
                            IF k = examData.questions[i].id THEN position ELSE answers[k]]
    /\ UNCHANGED <<Store, exam_attempts, daily_mcq_usage, examData,
                   submittedQuestions, results, Dialog, OtherPages>>

\* One session of a granted user without a quota.
InitDialog ==
    /\ user_profile = [role |-> "USER", profession_id |-> "p1",
                       health_authority_id |-> "h1", daily_mcq_limit |-> NullInt]
    /\ exam_access = {UserGrant}
    /\ rlsEnabled = FALSE
    /\ exam = ActiveExam
    /\ questions = LabelledPool(SessionQuestions)
    /\ exam_attempts = EmptyBag
    /\ daily_mcq_usage = NullInt
    /\ InitClient
    /\ InitAdminApi

NextDialog ==
    \/ MountTakeExam
    \/ DialogAnswerChange
    \/ OverallTimerExpires
    \/ FinishExam
    \/ HandleCancelSubmit
    \/ HandleConfirmSubmit
    \/ MutationSettles

SpecDialog == InitDialog /\ [][NextDialog]_vars

\* C24: a session never has two submitExam calls in flight and records at most
\* one attempt; while a call is in flight the submitting flag is up, and the
\* flag is released only by a step in which a call settles.
C24_OneSubmissionInFlight ==
    /\ [](/\ Len(mutations) <= 1
          /\ Len(mutations) = 1 => isSubmitting
          /\ BagCardinality(exam_attempts) <= 1)
    /\ [][(isSubmitting /\ ~isSubmitting') => Len(mutations') < Len(mutations)]_vars

\* C24 witness: the exam was submitted before the time was up, the time-up
\* dialog opened while the call was pending and was confirmed, and still only
\* that one call is in flight.
C24_Witness ==
    /\ Len(mutations) = 1
    /\ mutations[1].timeSpent = OnTime
    /\ isSubmitting
    /\ examData.error = NoError
    /\ timeRemaining = 0
    /\ submitContext = "time"
    /\ ~showConfirmModal

\* C25: when the overall timer reaches zero and no submission is pending, the
\* dialog opens in the time context; from then on it stays open in that
\* context until it is confirmed, which starts the submission.
C25_TimeUpDialogOnlyConfirmed ==
    [][/\ (examData.error = NoError /\ timeRemaining > 0 /\ timeRemaining' = 0
              /\ ~isSubmitting)
          => (showConfirmModal' /\ submitContext' = "time")
       /\ (examData.error = NoError /\ showConfirmModal /\ submitContext = "time"
              /\ ~isSubmitting)
          => \/ showConfirmModal' /\ submitContext' = "time"
             \/ ~showConfirmModal' /\ isSubmitting'
                   /\ Len(mutations') = Len(mutations) + 1]_vars

-----------------------------------------------------------------------------
(* Failures inside the admin-users endpoint (specification SpecAdmin) *)

\* The handler answered a request of the method in this step.
Answered(method) == handled' # handled /\ request'.method = method

\* C26: when user creation has created the auth account and the profile insert
\* then fails, the auth account is deleted again and 400 is returned: a POST
\* answered with an error leaves no auth account without a profile behind.
C26_NoOrphanAfterFailedPost ==
    [][(Answered("POST") /\ response'.kind = "error") =>
          /\ response'.status \in {400, 401}
          /\ UNCHANGED <<auth_users, account_profiles>>]_vars

\* C27: a PUT answered with an error leaves the target account as it was:
\* its password and its profile fields are unchanged.
C27_FailedPutChangesNothing ==
    [][(Answered("PUT") /\ response'.kind = "error") =>
          UNCHANGED <<auth_users, account_profiles>>]_vars

====
